---- MODULE Spec2Model ----
(***************************************************************************)
(* claude-memory-bridge (src/index.ts): prefix codec, common-prefix        *)
(* inference, mapping discovery, link reconciliation and status, over a    *)
(* small POSIX-like filesystem.                                            *)
(*                                                                         *)
(* A name (directory entry name, path prefix) is a sequence of             *)
(* one-character strings.  A path is a record [abs, segs]: whether it is   *)
(* absolute and its sequence of segments (names).                          *)
(***************************************************************************)
EXTENDS Integers, Sequences, FiniteSets, TLC

VARIABLES
    srcDir,     \* the remote projects directory: entry name -> entry
    srcOrder,   \* the order in which readdir enumerates srcDir
    tgtExists,  \* whether ~/.claude/projects exists
    tgtDir,     \* ~/.claude/projects: entry name -> entry
    argv,       \* the command line after the command word
    last,       \* the most recent invocation: command and outcome
    prev,       \* the invocation before it
    runs,       \* link processes under way: where each is in cmdLink and doLink
    wiz         \* the interactive wizard: where it is, its answers, its readline

vars == <<srcDir, srcOrder, tgtExists, tgtDir, argv, last, prev, runs, wiz>>

----------------------------------------------------------------------------
(* Bounds *)

\* symbolic links followed while resolving one path before giving up (ELOOP)
MaxHops == 3

\* largest number of entries of a directory handed to prefix detection
MaxDetectNames == 3

----------------------------------------------------------------------------
(* Sequences *)

Max(S) == CHOOSE x \in S : \A y \in S : y <= x

Front(s) == SubSeq(s, 1, Len(s) - 1)

Last(s) == s[Len(s)]

\* String.prototype.startsWith
startsWith(s, p) == Len(p) <= Len(s) /\ SubSeq(s, 1, Len(p)) = p

\* String.prototype.slice(n)
sliceFrom(s, n) == SubSeq(s, n + 1, Len(s))

\* String.prototype.slice(0, n)
sliceTo(s, n) == SubSeq(s, 1, n)

\* String.prototype.lastIndexOf (0-based, -1 when absent)
lastIndexOf(s, c) ==
    LET I == {i \in 1..Len(s) : s[i] = c}
    IN  IF I = {} THEN -1 ELSE Max(I) - 1

\* the sequences that enumerate the set S once each
Perms(S) ==
    {s \in [1..Cardinality(S) -> S] : \A i, j \in 1..Cardinality(S) : i # j => s[i] # s[j]}

----------------------------------------------------------------------------
(* Paths *)

Path(abs, segs) == [abs |-> abs, segs |-> segs]

NoPath == Path(FALSE, <<>>)

Dot == <<".">>

SegM == <<"m">>
SegP == <<"p">>
SegT == <<"t">>
SegO == <<"o">>
SegX == <<"x">>

\* process.cwd()
Cwd == Path(TRUE, <<SegM>>)

\* the directory id of Cwd in the tree below
CwdId == "m"

\* join(homedir(), ".claude", "projects")
localClaudeProjects == Path(TRUE, <<SegT>>)

\* the remote projects directory, spelled absolutely and relative to Cwd
SrcAbs == Path(TRUE, <<SegM, SegP>>)
SrcRel == Path(FALSE, <<SegP>>)

\* a path at which nothing exists
SrcMissing == Path(TRUE, <<SegX, SegP>>)

\* an existing directory that is no project, and a path where nothing is
PathO == Path(TRUE, <<SegO>>)
PathX == Path(TRUE, <<SegX>>)

\* path normalisation of node:path: "." segments disappear
normalize(segs) == SelectSeq(segs, LAMBDA s : s # Dot)

\* node:path join(dir, name): concatenate and normalise; stays relative
join(p, name) == Path(p.abs, normalize(p.segs \o <<name>>))

\* node:path resolve(p): make absolute against the working directory, normalise
resolve(p) ==
    IF p.abs THEN Path(TRUE, normalize(p.segs))
    ELSE Path(TRUE, normalize(Cwd.segs \o p.segs))

----------------------------------------------------------------------------
(* The filesystem:  /m/p is the remote projects directory, /t the local    *)
(* one, /o an empty directory; nothing else exists.                        *)

DirEntry == [kind |-> "dir", target |-> NoPath]
FileEntry == [kind |-> "file", target |-> NoPath]
SymlinkEntry(t) == [kind |-> "symlink", target |-> t]
NoEntry == [kind |-> "none", target |-> NoPath]

EmptyDir == [n \in {} |-> DirEntry]

FS == [srcDir |-> srcDir, tgtExists |-> tgtExists, tgtDir |-> tgtDir]

DirContent(fs, d) ==
    CASE d = "root" ->
           [n \in ({SegM, SegO} \cup (IF fs.tgtExists THEN {SegT} ELSE {})) |-> DirEntry]
      [] d = "m"    -> [n \in {SegP} |-> DirEntry]
      [] d = "src"  -> fs.srcDir
      [] d = "tgt"  -> fs.tgtDir
      [] OTHER      -> EmptyDir

ChildId(d, seg) ==
    CASE d = "root" /\ seg = SegM -> "m"
      [] d = "root" /\ seg = SegO -> "o"
      [] d = "root" /\ seg = SegT -> "tgt"
      [] d = "m" /\ seg = SegP    -> "src"
      [] OTHER                    -> "leaf"

NodeNone == [kind |-> "none", id |-> "none"]

\* path resolution of the operating system, following symbolic links
RECURSIVE Walk(_, _, _, _)
Walk(fs, d, segs, fuel) ==
    IF segs = <<>> THEN [kind |-> "dir", id |-> d]
    ELSE LET seg  == Head(segs)
             rest == Tail(segs)
             c    == DirContent(fs, d)
         IN  IF seg = Dot THEN Walk(fs, d, rest, fuel)
             ELSE IF seg \notin DOMAIN c THEN NodeNone
             ELSE LET e == c[seg]
                  IN  CASE e.kind = "dir"  -> Walk(fs, ChildId(d, seg), rest, fuel)
                        [] e.kind = "file" ->
                             IF rest = <<>> THEN [kind |-> "file", id |-> d] ELSE NodeNone
                        [] OTHER ->
                             IF fuel = 0 THEN NodeNone
                             ELSE Walk(fs, IF e.target.abs THEN "root" ELSE d,
                                       e.target.segs \o rest, fuel - 1)

\* stat(2): what a path leads to, symbolic links followed
statNode(fs, p) == Walk(fs, IF p.abs THEN "root" ELSE CwdId, p.segs, MaxHops)

\* node:fs existsSync: follows symbolic links
existsSync(fs, p) == statNode(fs, p).kind # "none"

\* node:fs lstatSync: the entry itself, a final symbolic link not followed
lstatSync(fs, p) ==
    LET par == statNode(fs, Path(p.abs, Front(p.segs)))
        c   == DirContent(fs, par.id)
    IN  IF p.segs = <<>> THEN DirEntry
        ELSE IF par.kind = "dir" /\ Last(p.segs) \in DOMAIN c THEN c[Last(p.segs)]
        ELSE NoEntry

PutEntry(dir, name, e) == [n \in DOMAIN dir \cup {name} |-> IF n = name THEN e ELSE dir[n]]

DropEntry(dir, name) == [n \in DOMAIN dir \ {name} |-> dir[n]]

SetDir(fs, d, content) ==
    IF d = "src" THEN [fs EXCEPT !.srcDir = content]
    ELSE [fs EXCEPT !.tgtDir = content]

\* node:fs symlinkSync(target, path): fails when anything is at path
symlinkSync(fs, target, p) ==
    LET par == statNode(fs, Path(p.abs, Front(p.segs)))
        c   == DirContent(fs, par.id)
    IN  IF par.kind # "dir" \/ par.id \notin {"src", "tgt"} \/ Last(p.segs) \in DOMAIN c
        THEN [ok |-> FALSE, fs |-> fs]
        ELSE [ok |-> TRUE, fs |-> SetDir(fs, par.id, PutEntry(c, Last(p.segs), SymlinkEntry(target)))]

\* node:fs unlinkSync(path): removes a link or file, fails on a directory
unlinkSync(fs, p) ==
    LET par == statNode(fs, Path(p.abs, Front(p.segs)))
        c   == DirContent(fs, par.id)
    IN  IF par.kind # "dir" \/ par.id \notin {"src", "tgt"} \/ Last(p.segs) \notin DOMAIN c
        THEN [ok |-> FALSE, fs |-> fs]
        ELSE IF c[Last(p.segs)].kind = "dir" THEN [ok |-> FALSE, fs |-> fs]
        ELSE [ok |-> TRUE, fs |-> SetDir(fs, par.id, DropEntry(c, Last(p.segs)))]

\* node:fs mkdirSync(localClaudeProjects, {recursive: true})
mkdirSync(fs, p) ==
    IF p = localClaudeProjects /\ ~fs.tgtExists
    THEN [fs EXCEPT !.tgtExists = TRUE, !.tgtDir = EmptyDir]
    ELSE fs

\* node:fs readdirSync(path): the names, in enumeration order
readdirSync(fs, order, p) ==
    LET n == statNode(fs, p)
    IN  IF n.kind = "dir" /\ n.id = "src" THEN order ELSE <<>>

----------------------------------------------------------------------------
(* Path encoding *)

\* String.prototype.replace("/", "-"): the first "/" only
encodePrefixFirst(prefix) ==
    LET I == {i \in 1..Len(prefix) : prefix[i] = "/"}
    IN  [i \in 1..Len(prefix) |->
            IF I # {} /\ i = CHOOSE j \in I : \A k \in I : j <= k THEN "-" ELSE prefix[i]]

\* String.prototype.replaceAll("/", "-")
encodePrefix(prefix) ==
    [i \in 1..Len(prefix) |-> IF prefix[i] = "/" THEN "-" ELSE prefix[i]]

\* autoPrefix.replaceAll("-", "/"): the wizard's decoding of a detected prefix
decodePrefix(encoded) ==
    [i \in 1..Len(encoded) |-> IF encoded[i] = "-" THEN "/" ELSE encoded[i]]

----------------------------------------------------------------------------
(* Auto-detection of the remote prefix *)

\* the shortest prefix worth reporting
MinPrefixLen == 3

NoPrefix == [found |-> FALSE, prefix |-> <<>>]

\* the while loop: how many leading characters prefix and entry share
RECURSIVE matchLen(_, _, _)
matchLen(prefix, entry, i) ==
    IF i < Len(prefix) /\ i < Len(entry) /\ prefix[i + 1] = entry[i + 1]
    THEN matchLen(prefix, entry, i + 1)
    ELSE i

\* the for loop leaving the first entry as it is
commonPrefixOfFirst(prefix, entries) == prefix

\* the for loop over entries.slice(1)
RECURSIVE commonPrefix(_, _)
commonPrefix(prefix, entries) ==
    IF entries = <<>> THEN prefix
    ELSE commonPrefix(sliceTo(prefix, matchLen(prefix, Head(entries), 0)), Tail(entries))

\* trim to the last hyphen, unless that hyphen is the leading character
trimToHyphen(prefix) ==
    LET lastHyphen == lastIndexOf(prefix, "-")
    IN  IF lastHyphen > 0 THEN sliceTo(prefix, lastHyphen) ELSE prefix

detectRemotePrefix(fs, order, projectsPath) ==
    LET entries == SelectSeq(readdirSync(fs, order, projectsPath),
                             LAMBDA e : startsWith(e, <<"-">>))
    IN  IF Len(entries) = 0 THEN NoPrefix
        ELSE LET prefix == trimToHyphen(commonPrefix(entries[1], Tail(entries)))
             IN  IF Len(prefix) < MinPrefixLen THEN NoPrefix
                 ELSE [found |-> TRUE, prefix |-> prefix]

----------------------------------------------------------------------------
(* Mapping discovery *)

\* lines 234-247: the state of the local entry of one mapping
localStateOf(fs, sourceFullPath, localFullPath) ==
    IF existsSync(fs, localFullPath)
    THEN LET stat == lstatSync(fs, localFullPath)
         IN  IF stat.kind = "symlink"
             THEN IF resolve(stat.target) = resolve(sourceFullPath)
                  THEN "symlink-correct"
                  ELSE "symlink-wrong"
             ELSE "directory-exists"
    ELSE "missing"

\* the filter of lines 223-226 on one directory entry
keepEntry(fs, dirName, encodedRemote) ==
    /\ fs.srcDir[dirName].kind \in {"dir", "symlink"}
    /\ startsWith(dirName, encodedRemote)

\* lines 228-232 with the suffix left out of the local name
mappingOfPrefixOnly(fs, sourcePath, encodedRemote, encodedLocal, dirName) ==
    LET localDirName   == encodedLocal
        sourceFullPath == join(sourcePath, dirName)
        localFullPath  == join(localClaudeProjects, localDirName)
    IN  [sourceDirName  |-> dirName,
         sourceFullPath |-> sourceFullPath,
         localDirName   |-> localDirName,
         localFullPath  |-> localFullPath,
         localState     |-> localStateOf(fs, sourceFullPath, localFullPath)]

\* lines 228-249: the mapping of one kept entry
mappingOf(fs, sourcePath, encodedRemote, encodedLocal, dirName) ==
    LET suffix         == sliceFrom(dirName, Len(encodedRemote))
        localDirName   == encodedLocal \o suffix
        sourceFullPath == join(sourcePath, dirName)
        localFullPath  == join(localClaudeProjects, localDirName)
    IN  [sourceDirName  |-> dirName,
         sourceFullPath |-> sourceFullPath,
         localDirName   |-> localDirName,
         localFullPath  |-> localFullPath,
         localState     |-> localStateOf(fs, sourceFullPath, localFullPath)]

\* discoverMappings past its existence check (the callers model the exit)
discoverMappings(fs, order, sourcePath, remotePrefix, localPrefix) ==
    LET encodedRemote == encodePrefix(remotePrefix)
        encodedLocal  == encodePrefix(localPrefix)
        kept == SelectSeq(readdirSync(fs, order, sourcePath),
                          LAMBDA n : keepEntry(fs, n, encodedRemote))
    IN  [i \in 1..Len(kept) |->
            mappingOf(fs, sourcePath, encodedRemote, encodedLocal, kept[i])]

----------------------------------------------------------------------------
(* Link reconciliation *)

\* linkOne re-creating a link that is already right
linkOneRefresh(acc, m) ==
    CASE m.localState \in {"symlink-correct", "symlink-wrong"} ->
           LET u == unlinkSync(acc.fs, m.localFullPath)
               s == symlinkSync(u.fs, m.sourceFullPath, m.localFullPath)
           IN  IF ~u.ok THEN [acc EXCEPT !.status = "threw"]
               ELSE IF ~s.ok THEN [acc EXCEPT !.fs = u.fs, !.status = "threw"]
               ELSE [acc EXCEPT !.fs = s.fs, !.updated = @ + 1]
      [] m.localState = "directory-exists" -> [acc EXCEPT !.skipped = @ + 1]
      [] OTHER ->
           LET s == symlinkSync(acc.fs, m.sourceFullPath, m.localFullPath)
           IN  IF ~s.ok THEN [acc EXCEPT !.status = "threw"]
               ELSE [acc EXCEPT !.fs = s.fs, !.created = @ + 1]

\* linkOne replacing whatever is in the way
linkOneOverwrite(acc, m) ==
    CASE m.localState = "symlink-correct" -> [acc EXCEPT !.skipped = @ + 1]
      [] m.localState \in {"symlink-wrong", "directory-exists"} ->
           LET u == unlinkSync(acc.fs, m.localFullPath)
               s == symlinkSync(u.fs, m.sourceFullPath, m.localFullPath)
           IN  IF ~u.ok THEN [acc EXCEPT !.status = "threw"]
               ELSE IF ~s.ok THEN [acc EXCEPT !.fs = u.fs, !.status = "threw"]
               ELSE [acc EXCEPT !.fs = s.fs, !.updated = @ + 1]
      [] OTHER ->
           LET s == symlinkSync(acc.fs, m.sourceFullPath, m.localFullPath)
           IN  IF ~s.ok THEN [acc EXCEPT !.status = "threw"]
               ELSE [acc EXCEPT !.fs = s.fs, !.created = @ + 1]

\* linkOne counting a repaired link as a created one
linkOneMiscount(acc, m) ==
    CASE m.localState = "symlink-correct" -> [acc EXCEPT !.skipped = @ + 1]
      [] m.localState = "symlink-wrong" ->
           LET u == unlinkSync(acc.fs, m.localFullPath)
               s == symlinkSync(u.fs, m.sourceFullPath, m.localFullPath)
           IN  IF ~u.ok THEN [acc EXCEPT !.status = "threw"]
               ELSE IF ~s.ok THEN [acc EXCEPT !.fs = u.fs, !.status = "threw"]
               ELSE [acc EXCEPT !.fs = s.fs, !.created = @ + 1]
      [] m.localState = "directory-exists" -> [acc EXCEPT !.skipped = @ + 1]
      [] OTHER ->
           LET s == symlinkSync(acc.fs, m.sourceFullPath, m.localFullPath)
           IN  IF ~s.ok THEN [acc EXCEPT !.status = "threw"]
               ELSE [acc EXCEPT !.fs = s.fs, !.created = @ + 1]

\* one iteration of the loop of doLink; a failed filesystem call throws
linkOne(acc, m) ==
    CASE m.localState = "symlink-correct" -> [acc EXCEPT !.skipped = @ + 1]
      [] m.localState = "symlink-wrong" ->
           LET u == unlinkSync(acc.fs, m.localFullPath)
               s == symlinkSync(u.fs, m.sourceFullPath, m.localFullPath)
           IN  IF ~u.ok THEN [acc EXCEPT !.status = "threw"]
               ELSE IF ~s.ok THEN [acc EXCEPT !.fs = u.fs, !.status = "threw"]
               ELSE [acc EXCEPT !.fs = s.fs, !.updated = @ + 1]
      [] m.localState = "directory-exists" -> [acc EXCEPT !.skipped = @ + 1]
      [] OTHER ->
           LET s == symlinkSync(acc.fs, m.sourceFullPath, m.localFullPath)
           IN  IF ~s.ok THEN [acc EXCEPT !.status = "threw"]
               ELSE [acc EXCEPT !.fs = s.fs, !.created = @ + 1]

RECURSIVE linkLoop(_, _, _)
linkLoop(acc, mappings, i) ==
    IF i > Len(mappings) \/ acc.status # "ok" THEN acc
    ELSE linkLoop(linkOne(acc, mappings[i]), mappings, i + 1)

doLink(fs, mappings) ==
    LET fs0 == IF ~existsSync(fs, localClaudeProjects)
               THEN mkdirSync(fs, localClaudeProjects)
               ELSE fs
    IN  linkLoop([fs |-> fs0, status |-> "ok", created |-> 0, updated |-> 0, skipped |-> 0],
                 mappings, 1)

\* the condition of line 518 taking whatever is at the local path
shouldUnlinkAnything(m) == m.localState # "missing"

\* the condition of line 518 letting right links be
shouldUnlinkWrongOnly(m) == m.localState = "symlink-wrong"

\* the condition of line 518
shouldUnlink(m) == m.localState \in {"symlink-correct", "symlink-wrong"}

\* one iteration of the loop of cmdUnlink
unlinkOne(acc, m) ==
    IF shouldUnlink(m)
    THEN LET u == unlinkSync(acc.fs, m.localFullPath)
         IN  IF ~u.ok THEN [acc EXCEPT !.status = "threw"]
             ELSE [acc EXCEPT !.fs = u.fs, !.removed = @ + 1]
    ELSE acc

RECURSIVE unlinkLoop(_, _, _)
unlinkLoop(acc, mappings, i) ==
    IF i > Len(mappings) \/ acc.status # "ok" THEN acc
    ELSE unlinkLoop(unlinkOne(acc, mappings[i]), mappings, i + 1)

----------------------------------------------------------------------------
(* Status *)

\* cmdStatus testing the link's target text instead of the link's path
statusReportOfTargets(fs) ==
    IF ~existsSync(fs, localClaudeProjects)
    THEN [exists |-> FALSE, symlinks |-> 0, healthy |-> 0, dirs |-> 0]
    ELSE LET names == DOMAIN fs.tgtDir
             links == {n \in names : lstatSync(fs, join(localClaudeProjects, n)).kind = "symlink"}
         IN  [exists   |-> TRUE,
              symlinks |-> Cardinality(links),
              healthy  |-> Cardinality({n \in links : existsSync(fs, fs.tgtDir[n].target)}),
              dirs     |-> Cardinality({n \in names :
                               lstatSync(fs, join(localClaudeProjects, n)).kind = "dir"})]

\* the loop of cmdStatus: what it counts
statusReport(fs) ==
    IF ~existsSync(fs, localClaudeProjects)
    THEN [exists |-> FALSE, symlinks |-> 0, healthy |-> 0, dirs |-> 0]
    ELSE LET names == DOMAIN fs.tgtDir
             links == {n \in names : lstatSync(fs, join(localClaudeProjects, n)).kind = "symlink"}
         IN  [exists   |-> TRUE,
              symlinks |-> Cardinality(links),
              healthy  |-> Cardinality({n \in links : existsSync(fs, join(localClaudeProjects, n))}),
              dirs     |-> Cardinality({n \in names :
                               lstatSync(fs, join(localClaudeProjects, n)).kind = "dir"})]

----------------------------------------------------------------------------
(* Command line *)

FlagSource == <<"-", "-", "s", "o", "u", "r", "c", "e">>
FlagMap == <<"-", "-", "m", "a", "p">>
FlagHelp == <<"-", "-", "h", "e", "l", "p">>
FlagH == <<"-", "h">>

\* a value that may be undefined
Undefined == [set |-> FALSE, val |-> <<>>]
Defined(v) == [set |-> TRUE, val |-> v]

\* args[i], undefined past the end (i counts from 1 here)
argAt(args, i) == IF i <= Len(args) THEN Defined(args[i]) ELSE Undefined

\* String.prototype.indexOf (0-based, -1 when absent)
indexOf(str, c) ==
    LET I == {i \in 1..Len(str) : str[i] = c}
    IN  IF I = {} THEN -1 ELSE (CHOOSE i \in I : \A j \in I : i <= j) - 1

\* a value JavaScript takes for true: defined and not the empty string
truthy(v) == v.set /\ v.val # <<>>

NoArgs ==
    [exit |-> "none", source |-> Undefined,
     remotePrefix |-> Undefined, localPrefix |-> Undefined]

\* the for loop of parseArgs over the words after the command
RECURSIVE parseLoop(_, _, _)
parseLoop(args, i, acc) ==
    IF i > Len(args) \/ acc.exit # "none" THEN acc
    ELSE CASE args[i] = FlagSource ->
                parseLoop(args, i + 2, [acc EXCEPT !.source = argAt(args, i + 1)])
           [] args[i] = FlagMap ->
                LET map == argAt(args, i + 1)
                IN  IF ~truthy(map) \/ indexOf(map.val, "=") = -1
                    THEN [acc EXCEPT !.exit = "exit1"]
                    ELSE LET eqIdx == indexOf(map.val, "=")
                         IN  parseLoop(args, i + 2,
                                 [acc EXCEPT
                                     !.remotePrefix = Defined(sliceTo(map.val, eqIdx)),
                                     !.localPrefix = Defined(sliceFrom(map.val, eqIdx + 1))])
           [] args[i] \in {FlagHelp, FlagH} -> [acc EXCEPT !.exit = "exit0"]
           [] OTHER -> parseLoop(args, i + 1, acc)

\* parseArgs on the words after the command
parseArgs(args) == parseLoop(args, 1, NoArgs)

\* requireArgs looking at --source only
requireArgsSourceOnly(parsed) == truthy(parsed.source)

\* requireArgs: whether it lets the command run
requireArgs(parsed) ==
    truthy(parsed.source) /\ truthy(parsed.remotePrefix) /\ truthy(parsed.localPrefix)

\* how the process ends before the command runs: "none" when it does not
exitBeforeCommand(args, needsArgs) ==
    LET parsed == parseArgs(args)
    IN  IF parsed.exit # "none" THEN parsed.exit
        ELSE IF needsArgs /\ ~requireArgs(parsed) THEN "exit1"
        ELSE "none"

\* the segments of a path string: what lies between its "/"
RECURSIVE segments(_)
segments(str) ==
    IF str = <<>> THEN <<>>
    ELSE LET k == indexOf(str, "/")
         IN  IF k = -1 THEN <<str>>
             ELSE IF k = 0 THEN segments(Tail(str))
             ELSE <<sliceTo(str, k)>> \o segments(sliceFrom(str, k + 1))

\* a path string as the operating system reads it
toPath(str) == Path(str # <<>> /\ str[1] = "/", segments(str))

\* the arguments of the command, as requireArgs returns them
source == toPath(parseArgs(argv).source.val)
mapRemote == parseArgs(argv).remotePrefix.val
mapLocal == parseArgs(argv).localPrefix.val

----------------------------------------------------------------------------
(* Inputs *)

\* entries of the remote projects directory: /h/a, /h/b and /g/a encoded
NameHA == <<"-", "h", "-", "a">>
NameHB == <<"-", "h", "-", "b">>
NameGA == <<"-", "g", "-", "a">>

\* names the local projects directory may hold at the start
LocalA == <<"-", "L", "-", "a">>
LocalB == <<"-", "L", "-", "b">>

\* --source: absolute, relative to the working directory, or not there
Sources == {<<"/", "m", "/", "p">>, <<"p">>, <<"/", "x", "/", "p">>}

\* --map remote=local
RemotePrefixes == {<<"/", "h">>, <<"/", "h", "/", "a">>}
LocalPrefixes == {<<"/", "L">>}

\* what the entries of the remote projects directory may be
SrcEntriesHA == {DirEntry, FileEntry, SymlinkEntry(PathO), SymlinkEntry(PathX)}
SrcEntriesHB == {DirEntry}

SrcDirs ==
    {[n \in {NameGA} |-> DirEntry]}
    \cup {[n \in {NameHA, NameGA} |-> IF n = NameHA THEN a ELSE DirEntry] : a \in SrcEntriesHA}
    \cup {[n \in {NameHB, NameGA} |-> IF n = NameHB THEN b ELSE DirEntry] : b \in SrcEntriesHB}
    \cup {[n \in {NameHA, NameHB, NameGA} |->
              IF n = NameHA THEN a ELSE IF n = NameHB THEN b ELSE DirEntry] :
             a \in SrcEntriesHA, b \in SrcEntriesHB}

\* readdir order is the platform's: one order or its reverse
Enumerations(names) ==
    {SelectSeq(o, LAMBDA n : n \in names) :
        o \in {<<NameHA, NameHB, NameGA>>, <<NameGA, NameHB, NameHA>>}}

\* what a local entry may be at the start: a directory, a file, or a link to
\* the source entry (spelled with a "." segment, or relative to the working
\* directory), to another source entry, or to nothing
TgtEntriesA ==
    {DirEntry, FileEntry,
     SymlinkEntry(Path(TRUE, <<SegM, SegP, Dot, NameHA>>)),
     SymlinkEntry(join(SrcRel, NameHA)),
     SymlinkEntry(join(SrcAbs, NameHB)),
     SymlinkEntry(PathX)}

TgtEntriesB == {DirEntry}

TgtDirs ==
    {EmptyDir}
    \cup {[n \in {LocalA} |-> a] : a \in TgtEntriesA}
    \cup {[n \in {LocalB} |-> b] : b \in TgtEntriesB}
    \cup {[n \in {LocalA, LocalB} |-> IF n = LocalA THEN a ELSE b] :
             a \in TgtEntriesA, b \in TgtEntriesB}

\* command lines that name a source and a mapping
GoodArgv ==
    {<<FlagSource, s, FlagMap, r \o <<"=">> \o l>> :
        s \in Sources, r \in RemotePrefixes, l \in LocalPrefixes}

\* command lines with --source or --map absent, without value or malformed,
\* and one asking for help
BadArgv ==
    LET s == <<"/", "m", "/", "p">>
        m == <<"/", "h", "=", "/", "L">>
    IN  {<<FlagMap, m>>,
         <<FlagSource, s>>,
         <<FlagSource, s, FlagMap, <<"/", "h", "/", "L">>>>,
         <<FlagSource, s, FlagMap, <<"=", "/", "L">>>>,
         <<FlagSource, s, FlagMap, <<"/", "h", "=">>>>,
         <<FlagSource, s, FlagMap>>,
         <<FlagSource, <<>>, FlagMap, m>>,
         <<FlagMap, m, FlagSource>>,
         <<FlagSource, s, FlagMap, m, FlagH>>}

----------------------------------------------------------------------------
(* Invocations *)

NoRun ==
    [op |-> "none", status |-> "none", mappings |-> <<>>,
     created |-> 0, updated |-> 0, skipped |-> 0, removed |-> 0,
     symlinks |-> 0, healthy |-> 0, dirs |-> 0, detected |-> NoPrefix]

Run(op) == [NoRun EXCEPT !.op = op]

SetFS(fs) ==
    /\ srcDir' = fs.srcDir
    /\ tgtExists' = fs.tgtExists
    /\ tgtDir' = fs.tgtDir

Inputs == <<srcOrder, argv>>

----------------------------------------------------------------------------
(* A link process, statement by statement                                  *)

Procs == {1, 2}

NoFS == [srcDir |-> EmptyDir, tgtExists |-> FALSE, tgtDir |-> EmptyDir]

\* a process not started: pc is where it is, i the mapping the loop of doLink
\* is at, half whether the stale link of that mapping is already removed,
\* before the filesystem as discovery saw it
IdleRun ==
    [pc |-> "idle", mappings |-> <<>>, i |-> 0, half |-> FALSE,
     created |-> 0, updated |-> 0, skipped |-> 0, before |-> NoFS]

OffRun == [IdleRun EXCEPT !.pc = "off"]

\* main and cmdLink up to the call of doLink
linkStart(fs, order, r) ==
    IF exitBeforeCommand(argv, TRUE) # "none" THEN [r EXCEPT !.pc = exitBeforeCommand(argv, TRUE)]
    ELSE IF ~existsSync(fs, source) THEN [r EXCEPT !.pc = "exit1"]
    ELSE [r EXCEPT !.pc = "mkdir",
                   !.mappings = discoverMappings(fs, order, source, mapRemote, mapLocal),
                   !.before = fs]

\* lines 265-268 of doLink
linkMkdir(fs, r) ==
    [fs  |-> IF ~existsSync(fs, localClaudeProjects)
             THEN mkdirSync(fs, localClaudeProjects)
             ELSE fs,
     run |-> [r EXCEPT !.pc = "loop", !.i = 1]]

\* whether the next statement of the loop is a call that changes the filesystem
atFsCall(r) ==
    /\ r.pc = "loop"
    /\ r.i <= Len(r.mappings)
    /\ r.mappings[r.i].localState \in {"missing", "symlink-wrong"}

\* the loop of doLink undoing the run when a call fails
linkStepRollback(fs, r) ==
    IF r.i > Len(r.mappings) THEN [fs |-> fs, run |-> [r EXCEPT !.pc = "done"]]
    ELSE LET m == r.mappings[r.i]
         IN  CASE m.localState \in {"symlink-correct", "directory-exists"} ->
                    [fs |-> fs, run |-> [r EXCEPT !.skipped = @ + 1, !.i = @ + 1]]
               [] m.localState = "symlink-wrong" /\ ~r.half ->
                    LET u == unlinkSync(fs, m.localFullPath)
                    IN  IF u.ok THEN [fs |-> u.fs, run |-> [r EXCEPT !.half = TRUE]]
                        ELSE [fs |-> r.before, run |-> [r EXCEPT !.pc = "threw"]]
               [] m.localState = "symlink-wrong" /\ r.half ->
                    LET c == symlinkSync(fs, m.sourceFullPath, m.localFullPath)
                    IN  IF c.ok
                        THEN [fs |-> c.fs,
                              run |-> [r EXCEPT !.updated = @ + 1, !.i = @ + 1, !.half = FALSE]]
                        ELSE [fs |-> r.before, run |-> [r EXCEPT !.pc = "threw"]]
               [] OTHER ->
                    LET c == symlinkSync(fs, m.sourceFullPath, m.localFullPath)
                    IN  IF c.ok
                        THEN [fs |-> c.fs, run |-> [r EXCEPT !.created = @ + 1, !.i = @ + 1]]
                        ELSE [fs |-> r.before, run |-> [r EXCEPT !.pc = "threw"]]

\* the next statement of the loop of doLink, or its return
linkStep(fs, r) ==
    IF r.i > Len(r.mappings) THEN [fs |-> fs, run |-> [r EXCEPT !.pc = "done"]]
    ELSE LET m == r.mappings[r.i]
         IN  CASE m.localState \in {"symlink-correct", "directory-exists"} ->
                    [fs |-> fs, run |-> [r EXCEPT !.skipped = @ + 1, !.i = @ + 1]]
               [] m.localState = "symlink-wrong" /\ ~r.half ->
                    LET u == unlinkSync(fs, m.localFullPath)
                    IN  IF u.ok THEN [fs |-> u.fs, run |-> [r EXCEPT !.half = TRUE]]
                        ELSE [fs |-> fs, run |-> [r EXCEPT !.pc = "threw"]]
               [] m.localState = "symlink-wrong" /\ r.half ->
                    LET c == symlinkSync(fs, m.sourceFullPath, m.localFullPath)
                    IN  IF c.ok
                        THEN [fs |-> c.fs,
                              run |-> [r EXCEPT !.updated = @ + 1, !.i = @ + 1, !.half = FALSE]]
                        ELSE [fs |-> fs, run |-> [r EXCEPT !.pc = "threw"]]
               [] OTHER ->
                    LET c == symlinkSync(fs, m.sourceFullPath, m.localFullPath)
                    IN  IF c.ok
                        THEN [fs |-> c.fs, run |-> [r EXCEPT !.created = @ + 1, !.i = @ + 1]]
                        ELSE [fs |-> fs, run |-> [r EXCEPT !.pc = "threw"]]

Active(p) == runs[p].pc \in {"mkdir", "loop"}

runStart(p) ==
    /\ runs[p].pc = "idle"
    /\ runs' = [runs EXCEPT ![p] = linkStart(FS, srcOrder, runs[p])]
    /\ UNCHANGED <<srcDir, tgtExists, tgtDir, Inputs, last, prev, wiz>>

runMkdir(p) ==
    /\ runs[p].pc = "mkdir"
    /\ LET n == linkMkdir(FS, runs[p])
       IN  /\ SetFS(n.fs)
           /\ runs' = [runs EXCEPT ![p] = n.run]
    /\ UNCHANGED <<Inputs, last, prev, wiz>>

runStep(p) ==
    /\ runs[p].pc = "loop"
    /\ LET n == linkStep(FS, runs[p])
       IN  /\ SetFS(n.fs)
           /\ runs' = [runs EXCEPT ![p] = n.run]
    /\ UNCHANGED <<Inputs, last, prev, wiz>>

\* the operating system refusing the call (EACCES, EROFS, EIO)
runDenied(p) ==
    /\ atFsCall(runs[p])
    /\ runs' = [runs EXCEPT ![p].pc = "threw"]
    /\ UNCHANGED <<srcDir, tgtExists, tgtDir, Inputs, last, prev, wiz>>

\* the process killed between two statements
runKill(p) ==
    /\ Active(p)
    /\ runs' = [runs EXCEPT ![p].pc = "killed"]
    /\ UNCHANGED <<srcDir, tgtExists, tgtDir, Inputs, last, prev, wiz>>

----------------------------------------------------------------------------
(* The interactive wizard, from one question to the next                   *)

RECURSIVE joinSegs(_)
joinSegs(segs) ==
    IF segs = <<>> THEN <<>> ELSE <<"/">> \o Head(segs) \o joinSegs(Tail(segs))

\* an absolute path as a string
pathString(p) == IF p.segs = <<>> THEN <<"/">> ELSE joinSegs(p.segs)

\* node:path resolve(p, "..", "..")
resolveUp2(p) ==
    LET r == resolve(p)
    IN  Path(TRUE, SubSeq(r.segs, 1, Max({0, Len(r.segs) - 2})))

\* the wizard before it runs: rl is whether _rl holds an open interface,
\* wanted the projects the user means to bridge
WizIdle ==
    [pc |-> "idle", rl |-> FALSE, detected |-> 0,
     sourcePath |-> NoPath, localPrefix |-> <<>>, remotePrefix |-> <<>>,
     autoPrefix |-> <<>>, mappings |-> <<>>, wanted |-> {}, before |-> NoFS,
     created |-> 0, updated |-> 0, skipped |-> 0]

WizOff == [WizIdle EXCEPT !.pc = "off"]

\* what the user may type as a path, and as a remote prefix
CustomPaths == {<<"/", "m", "/", "p">>, <<"/", "x", "/", "p">>}
WizardPrefixes == {<<"/", "h">>, <<"/", "h", "/", "a">>}

\* getRL inside ask: the interface is created at the first question
getRL(w) == [w EXCEPT !.rl = TRUE]

closeRL(w) == [w EXCEPT !.rl = FALSE]

\* the source is chosen: localPrefix, then detectRemotePrefix, whose
\* readdirSync throws when the path is no directory
afterSource(fs, order, w, path) ==
    LET v == [w EXCEPT !.sourcePath = path, !.localPrefix = pathString(resolveUp2(path))]
    IN  IF statNode(fs, path).kind # "dir" THEN [v EXCEPT !.pc = "threw"]
        ELSE LET a == detectRemotePrefix(fs, order, path)
             IN  IF a.found THEN [v EXCEPT !.autoPrefix = a.prefix, !.pc = "askMapping"]
                 ELSE [v EXCEPT !.pc = "askPrefix"]

linkableOf(mappings) ==
    {i \in 1..Len(mappings) : mappings[i].localState \in {"missing", "symlink-wrong"}}

\* steps 4 and 5 up to the last question
wizDiscover(fs, order, w, remotePrefix) ==
    LET v  == [w EXCEPT !.remotePrefix = remotePrefix]
        ms == discoverMappings(fs, order, v.sourcePath, remotePrefix, v.localPrefix)
    IN  IF ~existsSync(fs, v.sourcePath) THEN [v EXCEPT !.pc = "exit1"]
        ELSE IF linkableOf(ms) = {}
             THEN closeRL([v EXCEPT !.mappings = ms, !.before = fs, !.pc = "nothing"])
             ELSE [v EXCEPT !.mappings = ms, !.before = fs, !.pc = "askProceed"]

\* steps 1 and 2, and the first question
wizStart ==
    /\ wiz.pc = "idle"
    /\ \E n \in {0, 1} :
          wiz' = getRL([wiz EXCEPT !.detected = n,
                                   !.pc = IF n > 0 THEN "askUse" ELSE "askPath"])
    /\ UNCHANGED <<srcDir, tgtExists, tgtDir, Inputs, last, prev, runs>>

\* "Use <detected path>?"
wizUse ==
    /\ wiz.pc = "askUse"
    /\ \E useIt \in BOOLEAN :
          wiz' = IF useIt THEN afterSource(FS, srcOrder, wiz, SrcAbs)
                 ELSE [wiz EXCEPT !.pc = "askCustom"]
    /\ UNCHANGED <<srcDir, tgtExists, tgtDir, Inputs, last, prev, runs>>

\* "Enter path to remote .claude/projects/" after a detected one was declined
wizCustom ==
    /\ wiz.pc = "askCustom"
    /\ \E custom \in CustomPaths : wiz' = afterSource(FS, srcOrder, wiz, toPath(custom))
    /\ UNCHANGED <<srcDir, tgtExists, tgtDir, Inputs, last, prev, runs>>

\* "Enter path to remote .claude/projects/" when nothing was detected
wizPath ==
    /\ wiz.pc = "askPath"
    /\ \E sourcePath \in CustomPaths :
          wiz' = IF ~existsSync(FS, toPath(sourcePath))
                 THEN closeRL([wiz EXCEPT !.sourcePath = toPath(sourcePath), !.pc = "exit1"])
                 ELSE afterSource(FS, srcOrder, wiz, toPath(sourcePath))
    /\ UNCHANGED <<srcDir, tgtExists, tgtDir, Inputs, last, prev, runs>>

\* "Use this mapping?"
wizMapping ==
    /\ wiz.pc = "askMapping"
    /\ \E useMapping \in BOOLEAN :
          wiz' = IF useMapping
                 THEN wizDiscover(FS, srcOrder, wiz, decodePrefix(wiz.autoPrefix))
                 ELSE [wiz EXCEPT !.pc = "askPrefix"]
    /\ UNCHANGED <<srcDir, tgtExists, tgtDir, Inputs, last, prev, runs>>

\* "Enter remote path prefix"
wizPrefix ==
    /\ wiz.pc = "askPrefix"
    /\ \E remotePrefix \in WizardPrefixes : wiz' = wizDiscover(FS, srcOrder, wiz, remotePrefix)
    /\ UNCHANGED <<srcDir, tgtExists, tgtDir, Inputs, last, prev, runs>>

\* step 5 creating the local projects directory before the answer is looked at
wizProceedRegardless ==
    /\ wiz.pc = "askProceed"
    /\ \E proceed \in BOOLEAN :
       \E wanted \in SUBSET {wiz.mappings[i].sourceDirName : i \in linkableOf(wiz.mappings)} :
          IF ~proceed
          THEN /\ wiz' = closeRL([wiz EXCEPT !.wanted = wanted, !.pc = "cancelled"])
               /\ SetFS(linkMkdir(FS, IdleRun).fs)
          ELSE LET r == doLink(FS, wiz.mappings)
               IN  /\ SetFS(r.fs)
                   /\ wiz' = IF r.status = "ok"
                             THEN closeRL([wiz EXCEPT !.wanted = wanted, !.pc = "done",
                                                      !.created = r.created,
                                                      !.updated = r.updated,
                                                      !.skipped = r.skipped])
                             ELSE [wiz EXCEPT !.wanted = wanted, !.pc = "threw"]
    /\ UNCHANGED <<Inputs, last, prev, runs>>

\* "Create N symlink(s)?", the only question about the projects: the user
\* means to bridge the projects in wanted and can answer yes or no
wizProceed ==
    /\ wiz.pc = "askProceed"
    /\ \E proceed \in BOOLEAN :
       \E wanted \in SUBSET {wiz.mappings[i].sourceDirName : i \in linkableOf(wiz.mappings)} :
          IF ~proceed
          THEN /\ wiz' = closeRL([wiz EXCEPT !.wanted = wanted, !.pc = "cancelled"])
               /\ UNCHANGED <<srcDir, tgtExists, tgtDir>>
          ELSE LET r == doLink(FS, wiz.mappings)
               IN  /\ SetFS(r.fs)
                   /\ wiz' = IF r.status = "ok"
                             THEN closeRL([wiz EXCEPT !.wanted = wanted, !.pc = "done",
                                                      !.created = r.created,
                                                      !.updated = r.updated,
                                                      !.skipped = r.skipped])
                             ELSE [wiz EXCEPT !.wanted = wanted, !.pc = "threw"]
    /\ UNCHANGED <<Inputs, last, prev, runs>>

----------------------------------------------------------------------------
(* Commands *)

\* cmdScan preparing the target directory as doLink does
cmdScanPreparing ==
    LET exit == exitBeforeCommand(argv, TRUE)
    IN  /\ last' =
             IF exit # "none" THEN [Run("scan") EXCEPT !.status = exit]
             ELSE IF ~existsSync(FS, source)
             THEN [Run("scan") EXCEPT !.status = "exit1"]
             ELSE [Run("scan") EXCEPT
                      !.status = "ok",
                      !.mappings = discoverMappings(FS, srcOrder, source, mapRemote, mapLocal)]
        /\ prev' = last
        /\ SetFS(mkdirSync(FS, localClaudeProjects))
        /\ UNCHANGED <<Inputs, runs, wiz>>

\* `scan`: parseArgs, requireArgs, cmdScan
cmdScan ==
    LET exit == exitBeforeCommand(argv, TRUE)
    IN  /\ last' =
             IF exit # "none" THEN [Run("scan") EXCEPT !.status = exit]
             ELSE IF ~existsSync(FS, source)
             THEN [Run("scan") EXCEPT !.status = "exit1"]
             ELSE [Run("scan") EXCEPT
                      !.status = "ok",
                      !.mappings = discoverMappings(FS, srcOrder, source, mapRemote, mapLocal)]
        /\ prev' = last
        /\ UNCHANGED <<srcDir, tgtExists, tgtDir, Inputs, runs, wiz>>

\* `link`: parseArgs, requireArgs, cmdLink
cmdLink ==
    LET exit == exitBeforeCommand(argv, TRUE)
    IN  /\ prev' = last
        /\ UNCHANGED <<Inputs, runs, wiz>>
        /\ IF exit # "none"
           THEN /\ last' = [Run("link") EXCEPT !.status = exit]
                /\ UNCHANGED <<srcDir, tgtExists, tgtDir>>
           ELSE IF ~existsSync(FS, source)
           THEN /\ last' = [Run("link") EXCEPT !.status = "exit1"]
                /\ UNCHANGED <<srcDir, tgtExists, tgtDir>>
           ELSE LET mappings == discoverMappings(FS, srcOrder, source, mapRemote, mapLocal)
                    r == doLink(FS, mappings)
                IN  /\ SetFS(r.fs)
                    /\ last' = [Run("link") EXCEPT
                                   !.status = r.status, !.mappings = mappings,
                                   !.created = IF r.status = "ok" THEN r.created ELSE 0,
                                   !.updated = IF r.status = "ok" THEN r.updated ELSE 0,
                                   !.skipped = IF r.status = "ok" THEN r.skipped ELSE 0]

\* `unlink`: parseArgs, requireArgs, cmdUnlink
cmdUnlink ==
    LET exit == exitBeforeCommand(argv, TRUE)
    IN  /\ prev' = last
        /\ UNCHANGED <<Inputs, runs, wiz>>
        /\ IF exit # "none"
           THEN /\ last' = [Run("unlink") EXCEPT !.status = exit]
                /\ UNCHANGED <<srcDir, tgtExists, tgtDir>>
           ELSE IF ~existsSync(FS, source)
           THEN /\ last' = [Run("unlink") EXCEPT !.status = "exit1"]
                /\ UNCHANGED <<srcDir, tgtExists, tgtDir>>
           ELSE LET mappings == discoverMappings(FS, srcOrder, source, mapRemote, mapLocal)
                    r == unlinkLoop([fs |-> FS, status |-> "ok", removed |-> 0], mappings, 1)
                IN  /\ SetFS(r.fs)
                    /\ last' = [Run("unlink") EXCEPT
                                   !.status = r.status, !.mappings = mappings,
                                   !.removed = r.removed]

\* `status`: parseArgs, cmdStatus
cmdStatus ==
    LET exit == exitBeforeCommand(argv, FALSE)
        r == statusReport(FS)
    IN  /\ last' =
             IF exit # "none" THEN [Run("status") EXCEPT !.status = exit]
             ELSE [Run("status") EXCEPT
                      !.status = "ok", !.symlinks = r.symlinks,
                      !.healthy = r.healthy, !.dirs = r.dirs]
        /\ prev' = last
        /\ UNCHANGED <<srcDir, tgtExists, tgtDir, Inputs, runs, wiz>>

\* the wizard's detection step (lines 368, 403) on the chosen projects directory
wizardDetect ==
    /\ last.op = "none"
    /\ last' = [Run("detect") EXCEPT
                   !.status = "ok",
                   !.detected = detectRemotePrefix(FS, srcOrder, SrcAbs)]
    /\ prev' = last
    /\ UNCHANGED <<srcDir, tgtExists, tgtDir, Inputs, runs, wiz>>

----------------------------------------------------------------------------
(* The commands, run one after another with one command line, on any       *)
(* starting filesystem                                                     *)

InitFS ==
    /\ srcDir \in SrcDirs
    /\ srcOrder \in Enumerations(DOMAIN srcDir)
    /\ tgtExists \in BOOLEAN
    /\ tgtDir \in (IF tgtExists THEN TgtDirs ELSE {EmptyDir})

Init ==
    /\ InitFS
    /\ argv \in GoodArgv
    /\ last = NoRun
    /\ prev = NoRun
    /\ runs = [p \in Procs |-> OffRun]
    /\ wiz = WizOff

Next ==
    \/ cmdScan
    \/ cmdLink
    \/ cmdUnlink
    \/ cmdStatus

Spec == Init /\ [][Next]_vars

\* the same commands on any command line
InitCli ==
    /\ InitFS
    /\ argv \in GoodArgv \cup BadArgv
    /\ last = NoRun
    /\ prev = NoRun
    /\ runs = [p \in Procs |-> OffRun]
    /\ wiz = WizOff

SpecCli == InitCli /\ [][Next]_vars

----------------------------------------------------------------------------
(* One link process that a refused call or a kill may stop, and link runs  *)
(* after it                                                                *)

InitFault ==
    /\ InitFS
    /\ argv \in GoodArgv
    /\ last = NoRun
    /\ prev = NoRun
    /\ runs = [p \in Procs |-> IF p = 1 THEN IdleRun ELSE OffRun]
    /\ wiz = WizOff

\* a link run from start to end, once no process is under way
linkUninterrupted ==
    /\ \A p \in Procs : runs[p].pc \notin {"idle", "mkdir", "loop"}
    /\ cmdLink

NextFault ==
    \/ \E p \in Procs : runStart(p)
    \/ \E p \in Procs : runMkdir(p)
    \/ \E p \in Procs : runStep(p)
    \/ \E p \in Procs : runDenied(p)
    \/ \E p \in Procs : runKill(p)
    \/ linkUninterrupted

SpecFault == InitFault /\ [][NextFault]_vars

----------------------------------------------------------------------------
(* Two link processes with one command line, their statements interleaved, *)
(* on a filesystem where either would complete alone                       *)

InitConc ==
    /\ srcDir \in {d \in SrcDirs : \A n \in DOMAIN d : d[n].kind = "dir"}
    /\ srcOrder \in Enumerations(DOMAIN srcDir)
    /\ tgtExists \in BOOLEAN
    /\ tgtDir \in (IF tgtExists THEN TgtDirs ELSE {EmptyDir})
    /\ \A n \in DOMAIN tgtDir : existsSync(FS, join(localClaudeProjects, n))
    /\ argv \in {a \in GoodArgv : a[2] = <<"/", "m", "/", "p">>}
    /\ last = NoRun
    /\ prev = NoRun
    /\ runs = [p \in Procs |-> IdleRun]
    /\ wiz = WizOff

NextConc ==
    \/ \E p \in Procs : runStart(p)
    \/ \E p \in Procs : runMkdir(p)
    \/ \E p \in Procs : runStep(p)

SpecConc == InitConc /\ [][NextConc]_vars

----------------------------------------------------------------------------
(* Prefix detection on a directory of project names *)

\* names a remote projects directory may hold
NameHomeUserProjA == <<"-", "h", "o", "m", "e", "-", "u", "s", "e", "r", "-", "p", "r", "o", "j", "-", "a">>
NameHomeUserProjB == <<"-", "h", "o", "m", "e", "-", "u", "s", "e", "r", "-", "p", "r", "o", "j", "-", "b">>
NameHomeUserWork == <<"-", "h", "o", "m", "e", "-", "u", "s", "e", "r", "-", "w", "o", "r", "k">>
NameHomeA == <<"-", "h", "o", "m", "e", "-", "a">>
NameWorkB == <<"-", "w", "o", "r", "k", "-", "b">>
NameAbc == <<"-", "a", "b", "c">>
NameAbd == <<"-", "a", "b", "d">>
NameHome == <<"-", "h", "o", "m", "e">>
NamePlain == <<"a", "b", "c">>

DetectNames ==
    {NameHomeUserProjA, NameHomeUserProjB, NameHomeUserWork, NameHomeA, NameWorkB, NameAbc, NameAbd, NameHome, NamePlain}

DetectInit ==
    /\ \E S \in SUBSET DetectNames :
          /\ Cardinality(S) <= MaxDetectNames
          /\ srcDir = [n \in S |-> DirEntry]
          /\ srcOrder \in Perms(S)
    /\ tgtExists = FALSE
    /\ tgtDir = EmptyDir
    /\ argv = <<>>
    /\ last = NoRun
    /\ prev = NoRun
    /\ runs = [p \in Procs |-> OffRun]
    /\ wiz = WizOff

DetectNext == wizardDetect

SpecDetect == DetectInit /\ [][DetectNext]_vars

----------------------------------------------------------------------------
(* The wizard, run once from a shell without arguments                     *)

\* local names the wizard's mappings come to: the local prefix is "/"
WizLocalA == <<"-", "-", "a">>
WizLocalB == <<"-", "-", "b">>

WizSrcDirs ==
    {[n \in {NameHA, NameHB} |-> DirEntry],
     [n \in {NameHomeUserProjA, NameHomeUserProjB} |-> DirEntry],
     [n \in {NameHomeUserProjA, NameHomeUserProjB, NameHomeUserWork} |->
         IF n = NameHomeUserProjB THEN SymlinkEntry(PathO) ELSE DirEntry],
     [n \in {NameHomeUserProjA, NameHomeUserWork, NamePlain} |->
         IF n = NameHomeUserWork THEN FileEntry ELSE DirEntry]}

WizTgtEntriesA ==
    {DirEntry, SymlinkEntry(join(SrcAbs, NameHA)), SymlinkEntry(PathO), SymlinkEntry(PathX)}

WizTgtDirs ==
    {EmptyDir}
    \cup {[n \in {WizLocalA} |-> a] : a \in WizTgtEntriesA}
    \cup {[n \in {WizLocalB} |-> DirEntry]}
    \cup {[n \in {WizLocalA, WizLocalB} |-> IF n = WizLocalA THEN a ELSE DirEntry] :
             a \in WizTgtEntriesA}

InitWizard ==
    /\ srcDir \in WizSrcDirs
    /\ srcOrder \in Perms(DOMAIN srcDir)
    /\ tgtExists \in BOOLEAN
    /\ tgtDir \in (IF tgtExists THEN WizTgtDirs ELSE {EmptyDir})
    /\ argv = <<>>
    /\ last = NoRun
    /\ prev = NoRun
    /\ runs = [p \in Procs |-> OffRun]
    /\ wiz = WizIdle

NextWizard ==
    \/ wizStart
    \/ wizUse
    \/ wizCustom
    \/ wizPath
    \/ wizMapping
    \/ wizPrefix
    \/ wizProceed

SpecWizard == InitWizard /\ [][NextWizard]_vars

----------------------------------------------------------------------------
(* Vocabulary of the properties *)

\* the encoding as the specification words it: every "/" becomes "-"
SlashesToHyphens(p) == [i \in DOMAIN p |-> IF p[i] = "/" THEN "-" ELSE p[i]]

\* the invocation r went through discovery
Discovered(r) == r.op \in {"scan", "link", "unlink"} /\ r.status \in {"ok", "threw"}

Indices(r) == 1..Len(r.mappings)

InState(r, st) == {i \in Indices(r) : r.mappings[i].localState = st}

AllCorrect(r) == \A i \in Indices(r) : r.mappings[i].localState = "symlink-correct"

\* the source entries discovery is to keep, and the local name of each
Qualifying ==
    {n \in DOMAIN srcDir :
        /\ srcDir[n].kind \in {"dir", "symlink"}
        /\ startsWith(n, SlashesToHyphens(mapRemote))}

LocalNameOf(n) == SlashesToHyphens(mapLocal) \o SubSeq(n, Len(mapRemote) + 1, Len(n))

\* a symbolic link whose target, made absolute, is not the source path
IsStaleLink(e, sourceFullPath) ==
    e.kind = "symlink" /\ resolve(e.target) # resolve(sourceFullPath)

IsRightLink(e, sourceFullPath) ==
    e.kind = "symlink" /\ resolve(e.target) = resolve(sourceFullPath)

----------------------------------------------------------------------------
(* C1  Idempotence of link *)

----------------------------------------------------------------------------
(* C2  Conflict safety *)

\* C2: a link run never removes, replaces or modifies a local entry that is
\* not a symbolic link, never changes the source directory, and never removes
\* the target base directory; every entry it adds or changes is a symbolic
\* link.
C2_LinkOnlyTouchesLinks ==
    [][last'.op = "link" =>
          /\ srcDir' = srcDir
          /\ tgtExists => tgtExists'
          /\ \A n \in DOMAIN tgtDir :
                tgtDir[n].kind # "symlink" =>
                    n \in DOMAIN tgtDir' /\ tgtDir'[n] = tgtDir[n]
          /\ \A n \in DOMAIN tgtDir' :
                (n \notin DOMAIN tgtDir \/ tgtDir'[n] # tgtDir[n]) =>
                    tgtDir'[n].kind = "symlink"]_vars

\* a link run that made a link next to a local directory or file it found
\* in the way of another mapping, which is still there
C2_Witness ==
    /\ last.op = "link" /\ last.status = "ok"
    /\ last.created + last.updated >= 1
    /\ \E i \in Indices(last) :
          /\ last.mappings[i].localState = "directory-exists"
          /\ tgtDir[last.mappings[i].localDirName].kind \in {"dir", "file"}

----------------------------------------------------------------------------
(* C3  Stale-link repair *)

\* C3: whenever a mapping's local entry is a symbolic link to something other
\* than the mapping's source path, whether that target exists or not, a link
\* run (here with an absolute --source) discovers it as symlink-wrong and
\* leaves a symbolic link whose resolved target is the source path, which
\* discovery then classifies symlink-correct.
C3_LinkRepairsEveryStaleLink ==
    [][(last'.op = "link" /\ source.abs) =>
          \A i \in 1..Len(last'.mappings) :
              LET m == last'.mappings[i]
              IN  IsStaleLink(lstatSync(FS, m.localFullPath), m.sourceFullPath) =>
                      /\ m.localState = "symlink-wrong"
                      /\ IsRightLink(lstatSync(FS', m.localFullPath), m.sourceFullPath)
                      /\ localStateOf(FS', m.sourceFullPath, m.localFullPath)
                             = "symlink-correct"]_vars

----------------------------------------------------------------------------
(* C4  Unlink symmetry *)

\* C4: when every discovered mapping is symlink-correct, unlink completes,
\* removes as many links as there are mappings and leaves none of their local
\* names behind; a scan right after it with the same inputs finds the same
\* mappings, every one of them missing.
C4_UnlinkRemovesAllThenScanSeesMissing ==
    /\ (last.op = "unlink" /\ Discovered(last) /\ AllCorrect(last)) =>
          /\ last.status = "ok"
          /\ last.removed = Len(last.mappings)
          /\ \A i \in Indices(last) : last.mappings[i].localDirName \notin DOMAIN tgtDir
    /\ (last.op = "scan" /\ prev.op = "unlink" /\ Discovered(prev) /\ AllCorrect(prev)) =>
          /\ last.status = "ok"
          /\ Len(last.mappings) = Len(prev.mappings)
          /\ \A i \in Indices(last) :
                /\ last.mappings[i].sourceDirName = prev.mappings[i].sourceDirName
                /\ last.mappings[i].localState = "missing"

\* a scan after an unlink that found two right links and removed both
C4_Witness ==
    /\ last.op = "scan" /\ prev.op = "unlink"
    /\ Len(prev.mappings) = 2 /\ AllCorrect(prev)
    /\ prev.removed = 2
    /\ Len(last.mappings) = 2

----------------------------------------------------------------------------
(* C5  Link, then status *)

\* C5: from a target directory with no entries and a source directory whose
\* N entries named with the encoded remote prefix are all directories, a link
\* run creates exactly N symbolic links, named encode(localPrefix) + suffix
\* and targeting the source paths, and status then reports N symbolic links,
\* N of them healthy, and no local directory.
C5_LinkThenStatusAllHealthy ==
    [][(/\ last'.op = "link" /\ Discovered(last')
        /\ tgtDir = EmptyDir
        /\ \A n \in Qualifying : srcDir[n].kind = "dir") =>
          LET N == Cardinality(Qualifying)
              report == statusReport(FS')
          IN  /\ last'.status = "ok"
              /\ last'.created = N
              /\ DOMAIN tgtDir' = {LocalNameOf(n) : n \in Qualifying}
              /\ \A n \in Qualifying :
                    IsRightLink(tgtDir'[LocalNameOf(n)], join(source, n))
              /\ report.symlinks = N
              /\ report.healthy = N
              /\ report.dirs = 0]_vars

----------------------------------------------------------------------------
(* C6  Detected prefix ends at a segment boundary *)

\* C6: a prefix returned by detectRemotePrefix is a prefix of every name that
\* begins with "-", and in each such name it is followed by "-" or by the end
\* of the name.
C6_PrefixEndsAtSegmentBoundary ==
    (last.op = "detect" /\ last.detected.found) =>
        LET P == last.detected.prefix
        IN  \A n \in DOMAIN srcDir :
                startsWith(n, <<"-">>) =>
                    /\ startsWith(n, P)
                    /\ Len(n) = Len(P) \/ n[Len(P) + 1] = "-"

----------------------------------------------------------------------------
(* C7  Common-prefix correctness *)

\* the longest sequence every name of S starts with
LongestCommonPrefix(S) ==
    LET n0 == CHOOSE n \in S : TRUE
        k  == Max({i \in 0..Len(n0) : \A n \in S : startsWith(n, SubSeq(n0, 1, i))})
    IN  SubSeq(n0, 1, k)

\* p up to, and without, its last "-"
CutAtLastHyphen(p) ==
    LET I == {i \in 1..Len(p) : p[i] = "-"}
    IN  IF I = {} THEN <<>> ELSE SubSeq(p, 1, Max(I) - 1)

ConfidentPrefix(S) ==
    IF S = {} THEN NoPrefix
    ELSE LET p == CutAtLastHyphen(LongestCommonPrefix(S))
         IN  IF Len(p) < 3 THEN NoPrefix ELSE [found |-> TRUE, prefix |-> p]

\* C7: detectRemotePrefix returns the longest common prefix of the names
\* beginning with "-", cut back to its last "-", or no prefix when there is no
\* such name or the result has fewer than 3 characters, whatever the order
\* of enumeration; the three -home-user names give -home-user, and -home-a
\* with -work-b gives no prefix.
C7_DetectsLongestCommonPrefixCutAtHyphen ==
    last.op = "detect" =>
        /\ last.detected = ConfidentPrefix({n \in DOMAIN srcDir : startsWith(n, <<"-">>)})
        /\ DOMAIN srcDir = {NameHomeUserProjA, NameHomeUserProjB, NameHomeUserWork} =>
              last.detected = [found |-> TRUE, prefix |-> SubSeq(NameHomeUserWork, 1, 10)]
        /\ DOMAIN srcDir = {NameHomeA, NameWorkB} => last.detected = NoPrefix

----------------------------------------------------------------------------
(* C8  Prefix rewriting *)

\* C8: discovery yields one mapping for each source entry that is a directory
\* or a symbolic link and whose name starts with the remote prefix with every
\* "/" replaced by "-", and for no other entry; the local name of each is the
\* local prefix with every "/" replaced by "-", followed by the rest of the
\* source name.
C8_MappingsRewriteThePrefix ==
    Discovered(last) =>
        /\ {last.mappings[i].sourceDirName : i \in Indices(last)} = Qualifying
        /\ Len(last.mappings) = Cardinality(Qualifying)
        /\ \A i \in Indices(last) :
              last.mappings[i].localDirName = LocalNameOf(last.mappings[i].sourceDirName)

\* a scan that kept a directory and a symbolic link and left an entry with
\* another prefix out
C8_Witness ==
    /\ last.op = "scan" /\ last.status = "ok"
    /\ Len(last.mappings) = 2
    /\ \E i \in Indices(last) : srcDir[last.mappings[i].sourceDirName].kind = "symlink"
    /\ \E n \in DOMAIN srcDir : n \notin Qualifying

----------------------------------------------------------------------------
(* C9  State classification *)

\* what C9 assigns to the entry e found at the local path of a mapping
ClassOf(e, sourceFullPath) ==
    CASE e.kind = "none"              -> "missing"
      [] IsRightLink(e, sourceFullPath) -> "symlink-correct"
      [] IsStaleLink(e, sourceFullPath) -> "symlink-wrong"
      [] OTHER                          -> "directory-exists"

\* C9: discovery classifies a mapping missing exactly when nothing is at its
\* local path, symlink-correct exactly when a symbolic link is there whose
\* target, made absolute, is the source path made absolute, symlink-wrong
\* exactly when a symbolic link with another target is there, whether that
\* target exists or not, and directory-exists exactly when anything else is.
C9_StateFollowsTheLocalEntry ==
    (last.op = "scan" /\ Discovered(last)) =>
        \A i \in Indices(last) :
            LET m == last.mappings[i]
            IN  m.localState = ClassOf(lstatSync(FS, m.localFullPath), m.sourceFullPath)

----------------------------------------------------------------------------
(* C10  Link policy and counters *)

\* C10: a link run that completes returns created = the number of mappings
\* discovered missing, updated = the number discovered symlink-wrong and
\* skipped = the number discovered symlink-correct or directory-exists, which
\* add up to the number of mappings; afterwards the local entry of every
\* missing or symlink-wrong mapping is a symbolic link to the source path,
\* and that of every symlink-correct mapping is as it was.
C10_CountersFollowDiscoveredStates ==
    [][(last'.op = "link" /\ last'.status = "ok") =>
          LET r == last'
          IN  /\ \A i \in Indices(r) :
                    r.mappings[i].localState =
                        localStateOf(FS, r.mappings[i].sourceFullPath, r.mappings[i].localFullPath)
              /\ r.created = Cardinality(InState(r, "missing"))
              /\ r.updated = Cardinality(InState(r, "symlink-wrong"))
              /\ r.skipped = Cardinality(InState(r, "symlink-correct")
                                             \cup InState(r, "directory-exists"))
              /\ r.created + r.updated + r.skipped = Len(r.mappings)
              /\ \A i \in InState(r, "missing") \cup InState(r, "symlink-wrong") :
                    /\ r.mappings[i].localDirName \in DOMAIN tgtDir'
                    /\ tgtDir'[r.mappings[i].localDirName]
                          = SymlinkEntry(r.mappings[i].sourceFullPath)
              /\ \A i \in InState(r, "symlink-correct") :
                    /\ r.mappings[i].localDirName \in DOMAIN tgtDir'
                    /\ tgtDir'[r.mappings[i].localDirName]
                          = tgtDir[r.mappings[i].localDirName]]_vars

\* a link run that created one link and repaired another
C10_Witness ==
    /\ last.op = "link" /\ last.status = "ok"
    /\ last.created = 1 /\ last.updated = 1
    /\ \A i \in Indices(last) :
          IsRightLink(tgtDir[last.mappings[i].localDirName], last.mappings[i].sourceFullPath)

----------------------------------------------------------------------------
(* C11  Unlink policy *)

\* C11: an unlink run removes the local entry of every mapping discovered
\* symlink-correct or symlink-wrong and reports their number as removed; it
\* leaves every other entry of the target directory, that of a missing or
\* directory-exists mapping included, and the whole source directory as they
\* were.
C11_UnlinkRemovesLinksOnly ==
    [][(last'.op = "unlink" /\ Discovered(last')) =>
          LET r == last'
              linked == InState(r, "symlink-correct") \cup InState(r, "symlink-wrong")
              gone == {r.mappings[i].localDirName : i \in linked}
          IN  /\ r.status = "ok"
              /\ r.removed = Cardinality(linked)
              /\ srcDir' = srcDir
              /\ tgtExists' = tgtExists
              /\ DOMAIN tgtDir' = DOMAIN tgtDir \ gone
              /\ \A n \in DOMAIN tgtDir' : tgtDir'[n] = tgtDir[n]]_vars

\* an unlink run that removed a link and left a local directory of another
\* mapping in place
C11_Witness ==
    /\ last.op = "unlink" /\ last.status = "ok"
    /\ last.removed = 1
    /\ \E i \in InState(last, "directory-exists") :
          last.mappings[i].localDirName \in DOMAIN tgtDir

----------------------------------------------------------------------------
(* C12  scan and status are read-only *)

\* C12: a scan or a status leaves the source directory, the target directory
\* and whether the target directory exists unchanged.
C12_ScanAndStatusChangeNothing ==
    [][last'.op \in {"scan", "status"} =>
          /\ srcDir' = srcDir
          /\ tgtExists' = tgtExists
          /\ tgtDir' = tgtDir]_vars

\* a status after a scan, with mappings to report and links to count
C12_Witness ==
    /\ last.op = "status" /\ prev.op = "scan"
    /\ Len(prev.mappings) >= 1
    /\ InState(prev, "missing") # {}
    /\ last.symlinks >= 1

----------------------------------------------------------------------------
(* C20  Status classification *)

\* whether the target of the symbolic link e of the target directory exists
LinkTargetExists(e) ==
    Walk(FS, IF e.target.abs THEN "root" ELSE "tgt", e.target.segs, MaxHops).kind # "none"

\* C20: status, once the command line is read, does not fail; with no target directory it reports nothing;
\* otherwise it counts every symbolic link of the target directory as
\* bridged, as healthy exactly those whose target exists, every directory as
\* local, and regular files in neither total.
C20_StatusCountsLinksAndDirectories ==
    (last.op = "status" /\ parseArgs(argv).exit = "none") =>
        LET links == {n \in DOMAIN tgtDir : tgtDir[n].kind = "symlink"}
            files == {n \in DOMAIN tgtDir : tgtDir[n].kind = "file"}
        IN  /\ last.status = "ok"
            /\ ~tgtExists => last.symlinks = 0 /\ last.healthy = 0 /\ last.dirs = 0
            /\ tgtExists =>
                  /\ last.symlinks = Cardinality(links)
                  /\ last.healthy = Cardinality({n \in links : LinkTargetExists(tgtDir[n])})
                  /\ last.dirs = Cardinality({n \in DOMAIN tgtDir : tgtDir[n].kind = "dir"})
                  /\ last.symlinks + last.dirs = Cardinality(DOMAIN tgtDir) - Cardinality(files)

\* a status over a broken link and a directory
C20_Witness ==
    /\ last.op = "status"
    /\ last.symlinks = 1 /\ last.healthy = 0
    /\ last.dirs = 1

----------------------------------------------------------------------------
(* C13  Fatal input errors *)

\* the value given to an option on the command line: the word after its
\* last occurrence
Given(flag) ==
    LET I == {i \in 1..Len(argv) : argv[i] = flag}
    IN  IF I = {} \/ Max(I) = Len(argv) THEN <<>> ELSE argv[Max(I) + 1]

\* what is wrong with the input, as C13 lists it
NoSource == Given(FlagSource) = <<>>
NoMap == Given(FlagMap) = <<>>
MapLacksEquals == \A i \in 1..Len(Given(FlagMap)) : Given(FlagMap)[i] # "="
MapSideEmpty ==
    LET I == {i \in 1..Len(Given(FlagMap)) : Given(FlagMap)[i] = "="}
    IN  I # {} /\ (1 \in I \/ \A i \in I : i = Len(Given(FlagMap)))
SourceDirAbsent == ~NoSource /\ ~existsSync(FS, toPath(Given(FlagSource)))
HelpAsked == \E i \in 1..Len(argv) : argv[i] \in {FlagHelp, FlagH}

\* C13: a scan, link or unlink whose command line has no --source, no --map,
\* a --map without "=" or with an empty side, or names a source directory
\* that does not exist, exits with code 1 having changed nothing in the
\* filesystem and with no mapping acted on.
C13_BadInputExitsBeforeAnyMutation ==
    [][(/\ last'.op \in {"scan", "link", "unlink"}
        /\ ~HelpAsked
        /\ NoSource \/ NoMap \/ MapLacksEquals \/ MapSideEmpty \/ SourceDirAbsent) =>
          /\ last'.status = "exit1"
          /\ last'.mappings = <<>>
          /\ last'.created = 0 /\ last'.updated = 0 /\ last'.removed = 0
          /\ srcDir' = srcDir
          /\ tgtExists' = tgtExists
          /\ tgtDir' = tgtDir]_vars

\* a link with a --map that lacks "=", after one scan, with no target
\* directory before or after
C13_Witness ==
    /\ last.op = "link" /\ prev.op = "scan"
    /\ last.status = "exit1"
    /\ ~NoSource /\ ~NoMap /\ MapLacksEquals
    /\ ~tgtExists

----------------------------------------------------------------------------
(* C14  A failed link operation is neither swallowed nor rolled back *)

\* the mapping a stopped run was at
StoppedAt(r) == r.i

\* the links the run made for the mappings before the k-th are in place
EarlierLinksInPlace(fs, r) ==
    \A j \in 1..(StoppedAt(r) - 1) :
        r.mappings[j].localState \in {"missing", "symlink-wrong"} =>
            lstatSync(fs, r.mappings[j].localFullPath)
                = SymlinkEntry(r.mappings[j].sourceFullPath)

\* the local entries of the mappings after the k-th are as discovery saw them
LaterEntriesUntouched(fs, r) ==
    \A j \in (StoppedAt(r) + 1)..Len(r.mappings) :
        lstatSync(fs, r.mappings[j].localFullPath)
            = lstatSync(r.before, r.mappings[j].localFullPath)

\* C14: when the link operation of the k-th mapping of a link run fails, the
\* run stops there for good and never reports its counters, the links it
\* made for mappings 1..k-1 stay in place, and the local entries of the
\* mappings after k are unchanged.
C14_FailurePropagatesAndKeepsEarlierLinks ==
    [][\A p \in Procs :
          /\ (runs[p].pc = "loop" /\ runs'[p].pc = "threw") =>
                /\ EarlierLinksInPlace(FS', runs'[p])
                /\ LaterEntriesUntouched(FS', runs'[p])
          /\ runs[p].pc = "threw" => runs'[p] = runs[p]
          /\ (last'.op = "link" /\ last'.status = "threw") =>
                last'.created = 0 /\ last'.updated = 0 /\ last'.skipped = 0]_vars

\* a run stopped at its second mapping after it made the link of the first
C14_Witness ==
    \E p \in Procs :
        /\ runs[p].pc = "threw"
        /\ runs[p].i = 2
        /\ runs[p].created + runs[p].updated = 1
        /\ last.op = "none"
        /\ EarlierLinksInPlace(FS, runs[p])

----------------------------------------------------------------------------
(* C16  Resuming after a killed link run *)

\* C16: when a link run is killed between two of its filesystem operations
\* (also between removing a stale link and creating its replacement), the
\* next link run with the same inputs completes without error and leaves
\* every mapping symlink-correct or directory-exists.
C16_KilledRunIsResumable ==
    [][(\E p \in Procs : runs[p].pc = "killed") /\ last.op = "none" /\ last'.op = "link" =>
          /\ last'.status = "ok"
          /\ \A i \in 1..Len(last'.mappings) :
                localStateOf(FS', last'.mappings[i].sourceFullPath,
                             last'.mappings[i].localFullPath)
                    \in {"symlink-correct", "directory-exists"}]_vars

----------------------------------------------------------------------------
(* C17  Two link runs at once *)

\* C17: when two link runs with the same inputs interleave their discovery
\* and their filesystem operations in any order, neither run aborts, and
\* once both are through every local path they were to link is a symbolic
\* link to its source path.
C17_ConcurrentRunsBothComplete ==
    /\ \A p \in Procs : runs[p].pc # "threw"
    /\ (\A p \in Procs : runs[p].pc = "done") =>
          \A p \in Procs : \A i \in 1..Len(runs[p].mappings) :
              runs[p].mappings[i].localState \in {"missing", "symlink-wrong"} =>
                  lstatSync(FS, runs[p].mappings[i].localFullPath)
                      = SymlinkEntry(runs[p].mappings[i].sourceFullPath)

----------------------------------------------------------------------------
(* C18  Replacing a wrong link *)

\* C18: the local path of a mapping discovered as symlink-wrong holds an
\* entry at every moment of the link run, so neither an observer nor a
\* kill finds it empty between the removal of the old link and the creation
\* of the new one.
C18_WrongLinkPathIsNeverEmpty ==
    \A p \in Procs : \A i \in 1..Len(runs[p].mappings) :
        runs[p].mappings[i].localState = "symlink-wrong" =>
            lstatSync(FS, runs[p].mappings[i].localFullPath) # NoEntry

----------------------------------------------------------------------------
(* C15  Choosing projects in the wizard *)

\* C15: when the wizard has shown the remote projects and linked, only the
\* projects the user selected have got a symbolic link, and the local entry
\* of every project left unselected is as it was.
C15_OnlySelectedProjectsAreLinked ==
    (wiz.pc = "done" /\ wiz.wanted # {}) =>
        \A i \in 1..Len(wiz.mappings) :
            LET m == wiz.mappings[i]
            IN  m.sourceDirName \notin wiz.wanted =>
                    lstatSync(FS, m.localFullPath) = lstatSync(wiz.before, m.localFullPath)

----------------------------------------------------------------------------
(* C19  The wizard's readline interface *)

WizardOver == wiz.pc \in {"done", "nothing", "cancelled", "exit1", "threw"}

\* C19: however the wizard ends once it has opened the readline interface
\* (completion, nothing to do, cancel, a custom path that does not exist, a
\* failure in discovery or linking), the interface is closed by then.
C19_ReadlineClosedOnEveryExit ==
    WizardOver => ~wiz.rl

----------------------------------------------------------------------------
(* C21  Absolute paths in mappings *)

\* C21: whatever --source is, absolute or relative to the working
\* directory, every mapping of discovery has an absolute source path and an
\* absolute local path, and a link that a completed link run created for it
\* leads to what the source path leads to.
C21_MappingPathsAreAbsolute ==
    Discovered(last) =>
        \A i \in Indices(last) :
            LET m == last.mappings[i]
            IN  /\ m.sourceFullPath.abs
                /\ m.localFullPath.abs
                /\ (last.op = "link" /\ last.status = "ok" /\ m.localState = "missing") =>
                      statNode(FS, m.localFullPath) = statNode(FS, resolve(m.sourceFullPath))

----------------------------------------------------------------------------
(* C22  The detected prefix, decoded and encoded again *)

\* the user took the detected mapping
AutoMappingUsed ==
    /\ wiz.pc \in {"askProceed", "nothing", "cancelled", "done", "threw"}
    /\ wiz.autoPrefix # <<>>
    /\ wiz.remotePrefix = decodePrefix(wiz.autoPrefix)

\* C22: a prefix P that detectRemotePrefix returned, every "-" replaced by
\* "/", encodes to P again, so discovery with the accepted detected mapping
\* keeps every directory or symbolic link of the source directory whose
\* name begins with "-".
C22_DetectedPrefixRoundTrips ==
    AutoMappingUsed =>
        /\ encodePrefix(wiz.remotePrefix) = wiz.autoPrefix
        /\ {wiz.mappings[i].sourceDirName : i \in 1..Len(wiz.mappings)}
              = {n \in DOMAIN srcDir :
                    /\ srcDir[n].kind \in {"dir", "symlink"}
                    /\ startsWith(n, <<"-">>)}

\* a detected mapping taken where the source directory holds two
\* directories and a symbolic link, all three kept
C22_Witness ==
    /\ AutoMappingUsed
    /\ \E n \in DOMAIN srcDir : srcDir[n].kind = "symlink"
    /\ Len(wiz.mappings) = 3

----------------------------------------------------------------------------
(* C23  One local path per mapping *)

\* C23: the mappings of one discovery have pairwise distinct local paths,
\* so no two link or unlink operations of a run act on the same path.
C23_LocalPathsAreDistinct ==
    Discovered(last) =>
        \A i, j \in Indices(last) :
            i # j => last.mappings[i].localFullPath # last.mappings[j].localFullPath

\* a discovery with two mappings
C23_Witness ==
    /\ Discovered(last)
    /\ Len(last.mappings) = 2
    /\ last.mappings[1].sourceDirName # last.mappings[2].sourceDirName

----------------------------------------------------------------------------
(* C24  The wizard writes only after the confirmation *)

\* C24: the wizard changes the filesystem only in the step that follows a
\* yes to "Create N symlink(s)?" with N >= 1; when nothing is to link or
\* the user declines, it ends with the filesystem as it was, the local
\* projects directory not created either.
C24_WizardWritesOnlyAfterYes ==
    [][/\ FS' # FS =>
             /\ wiz.pc = "askProceed"
             /\ wiz'.pc \in {"done", "threw"}
             /\ linkableOf(wiz.mappings) # {}
       /\ wiz'.pc \in {"nothing", "cancelled"} =>
             /\ FS' = FS
             /\ FS' = wiz'.before]_vars

\* the user declined with links to create and no local projects directory
C24_Witness ==
    /\ wiz.pc = "cancelled"
    /\ linkableOf(wiz.mappings) # {}
    /\ ~tgtExists

====
